---- MODULE Spec2Model ----
(***************************************************************************)
(* objtrack.c: a global, lazily created, growable vector of jobject        *)
(* pointers.  trackObject(obj) appends a pointer, freeObjects() frees      *)
(* every tracked pointer, the backing buffer and the struct, and resets    *)
(* the global pointer to NULL.                                             *)
(***************************************************************************)
EXTENDS Integers, Sequences, FiniteSets, TLC

\* Number of addresses the caller's allocator can hand out as jobject*.
MaxHandles == 258

\* const int initialSize = 128;
initialSize == 128

\* The null pointer, the address of the malloc'ed AllocVector and the address
\* of its malloc'ed/realloc'ed backing block.
NULL == 0
StructPtr == 1
BufPtr == 2

\* Content of a slot that malloc/realloc returned and nobody has written.
Uninit == -1

Handles == 1..MaxHandles

VARIABLES
    allocVector,    \* static AllocVector *_allocVector
    vector,         \* _allocVector->vector (NULL or BufPtr)
    used,           \* _allocVector->used
    size,           \* _allocVector->size
    buffer,         \* heap: the slots of the block vector points to
    live,           \* heap: the jobject addresses allocated and not freed
    structs,        \* heap: number of AllocVector structs allocated and not freed
    bufs,           \* heap: number of backing blocks allocated and not freed
    status,         \* "running", or the outcome of undefined behaviour
    oom,            \* an allocation of the most recent call returned NULL
    ret,            \* what the most recent call handed back to its caller
    freeLog,        \* the free() calls of the most recent call, in order
    tracked,        \* handles passed to trackObject since the last freeObjects
    released,       \* tracked, as it was when the most recent freeObjects began
    lastCall,       \* the most recent call: "none", "track" or "free"
    prevCall,       \* the call before it
    sizeAtRelease,  \* _allocVector->size when the last freeObjects began (0: no struct, -1: no such call)
    pc,             \* per thread: the line its call is at, or "idle"
    plan,           \* per thread: the calls it has still to make
    loc,            \* per thread: the argument obj, the loop variable i, and counts of the call
    structFreed,    \* heap: the struct _allocVector points to has been freed
    bufFreed,       \* heap: the block vector points to has been freed
    fault,          \* the undefined operation that ended the run, if any
    overlap,        \* the pairs of functions of which two calls were in progress at once
    loop            \* the loop of lines 45-48 on machine integers: index, bound, visits

\* The variables of the line-by-line execution of the calls by threads.
svars == <<pc, plan, loc, structFreed, bufFreed, fault, overlap, loop>>

vars == <<allocVector, vector, used, size, buffer, live, structs, bufs,
          status, oom, ret, freeLog, tracked, released, lastCall, prevCall,
          sizeAtRelease, svars>>

\* The threads that call into the tracker.
Threads == {"t1", "t2"}

NoLocals == [fn |-> "none", obj |-> NULL, i |-> 0, iters |-> 0, inits |-> 0, grows |-> 0,
             used0 |-> Uninit]
NoFault == [kind |-> "none", thread |-> "none", at |-> "none"]
NoLoop == [pc |-> "none", i |-> 0, used |-> 0, visited |-> <<>>, ovf |-> FALSE,
           mode |-> "int"]

\* No thread is inside a call, nothing is planned.
ThreadsIdle ==
    /\ pc = [t \in Threads |-> "idle"]
    /\ plan = [t \in Threads |-> <<>>]
    /\ loc = [t \in Threads |-> NoLocals]
    /\ structFreed = FALSE
    /\ bufFreed = FALSE
    /\ fault = NoFault
    /\ overlap = {}
    /\ loop = NoLoop

\* The memory the two functions read and write, as one value.
State ==
    [allocVector |-> allocVector, vector |-> vector, used |-> used,
     size |-> size, buffer |-> buffer, live |-> live, structs |-> structs,
     bufs |-> bufs, log |-> <<>>, oom |-> FALSE, ub |-> FALSE]

\* A block of n slots as malloc returns it.
Slots(n) == [i \in 1..n |-> Uninit]

\* initAllocVector(); mS, mB: whether the two malloc calls succeed.
initAllocVector(s, mS, mB) ==
    IF ~mS
    THEN \* line 22 stores NULL, line 23 writes through it
         [s EXCEPT !.allocVector = NULL, !.oom = TRUE, !.ub = TRUE]
    ELSE [s EXCEPT !.allocVector = StructPtr,
                   !.structs = @ + 1,
                   !.vector = IF mB THEN BufPtr ELSE NULL,
                   !.bufs = IF mB THEN @ + 1 ELSE @,
                   !.buffer = IF mB THEN Slots(initialSize) ELSE <<>>,
                   !.oom = ~mB,
                   !.used = 0,
                   !.size = initialSize]

\* grow with the size field doubled and the block left as it is.
grow_NoRealloc(s, rA) ==
    [s EXCEPT !.size = @ * 2]

\* grow by a new malloc'ed block, the old contents not copied.
grow_NoCopy(s, rA) ==
    IF rA
    THEN [s EXCEPT !.size = @ * 2, !.buffer = Slots(s.size * 2)]
    ELSE [s EXCEPT !.size = @ * 2, !.vector = NULL, !.oom = TRUE]

\* grow by a fixed step: size += initialSize.
grow_Linear(s, rA) ==
    IF rA
    THEN [s EXCEPT !.size = @ + initialSize,
                   !.buffer = [i \in 1..(s.size + initialSize) |->
                                  IF i <= Len(s.buffer) THEN s.buffer[i] ELSE Uninit]]
    ELSE [s EXCEPT !.size = @ + initialSize, !.vector = NULL, !.oom = TRUE]

\* Lines 34-36: double size and realloc the block; rA: whether realloc succeeds.
\* A failed realloc returns NULL and leaves the old block allocated.
grow(s, rA) ==
    IF rA
    THEN [s EXCEPT !.size = @ * 2,
                   !.buffer = [i \in 1..(s.size * 2) |->
                                  IF i <= Len(s.buffer) THEN s.buffer[i] ELSE Uninit]]
    ELSE [s EXCEPT !.size = @ * 2, !.vector = NULL, !.oom = TRUE]

\* store with the index incremented before use: vector[++used] = obj.
store_PreIncrement(s, obj) ==
    IF s.vector = NULL \/ s.used + 2 > Len(s.buffer)
    THEN [s EXCEPT !.ub = TRUE]
    ELSE [s EXCEPT !.buffer[s.used + 2] = obj, !.used = @ + 1]

\* Line 38: _allocVector->vector[_allocVector->used++] = obj.
store(s, obj) ==
    IF s.vector = NULL \/ s.used + 1 > Len(s.buffer)
    THEN [s EXCEPT !.ub = TRUE]
    ELSE [s EXCEPT !.buffer[s.used + 1] = obj, !.used = @ + 1]

\* trackObject growing one insertion early: used + 1 == size.
trackObject_GrowEarly(s, obj, mS, mB, rA) ==
    LET s1 == IF s.allocVector = NULL \/ s.vector = NULL
              THEN initAllocVector(s, mS, mB) ELSE s
        s2 == IF ~s1.ub /\ s1.used + 1 = s1.size THEN grow(s1, rA) ELSE s1
    IN  IF s2.ub THEN s2 ELSE store(s2, obj)

\* void trackObject(jobject *obj)
trackObject(s, obj, mS, mB, rA) ==
    LET s1 == IF s.allocVector = NULL \/ s.vector = NULL
              THEN initAllocVector(s, mS, mB) ELSE s
        s2 == IF ~s1.ub /\ s1.used = s1.size THEN grow(s1, rA) ELSE s1
    IN  IF s2.ub THEN s2 ELSE store(s2, obj)

\* free(p) of a jobject pointer: a no-op on NULL, undefined on a pointer that
\* is not a live allocation.
free(s, p) ==
    IF p = NULL THEN s
    ELSE IF p \in s.live
    THEN [s EXCEPT !.live = @ \ {p}, !.log = Append(@, <<"obj", p>>)]
    ELSE [s EXCEPT !.ub = TRUE, !.log = Append(@, <<"obj", p>>)]

\* Lines 46-47 for one index i: free(vector[i]); vector[i] = NULL.
freeSlot(s, i) ==
    IF s.vector = NULL \/ i + 1 > Len(s.buffer) THEN [s EXCEPT !.ub = TRUE]
    ELSE [free(s, s.buffer[i + 1]) EXCEPT !.buffer[i + 1] = NULL]

\* Lines 45-48: the iterations i = lo, lo + 1, .. hi - 1 of the loop, in that
\* order (the body does not change used, so the bound read at each test is the
\* one read at the first).  The range is split in halves to keep the
\* evaluation shallow; the left half runs before the right.
RECURSIVE freeLoop(_, _, _)
freeLoop(s, lo, hi) ==
    IF s.ub \/ ~(lo < hi) THEN s
    ELSE IF hi = lo + 1 THEN freeSlot(s, lo)
    ELSE LET mid == (lo + hi) \div 2
         IN  freeLoop(freeLoop(s, lo, mid), mid, hi)

\* Lines 50-51: free(_allocVector->vector); _allocVector->vector = NULL.
freeVector(s) ==
    IF s.vector = NULL THEN s
    ELSE [s EXCEPT !.bufs = @ - 1, !.buffer = <<>>, !.vector = NULL,
                   !.log = Append(@, <<"vector", BufPtr>>)]

\* freeStruct without line 54: the global pointer keeps the freed address.
freeStruct_KeepGlobal(s) ==
    [s EXCEPT !.structs = @ - 1,
              !.log = Append(@, <<"struct", StructPtr>>)]

\* Lines 53-54: free(_allocVector); _allocVector = NULL.  The fields of the
\* freed struct are gone with it.
freeStruct(s) ==
    [s EXCEPT !.structs = @ - 1, !.allocVector = NULL, !.used = 0, !.size = 0,
              !.log = Append(@, <<"struct", StructPtr>>)]

\* freeObjects with the loop started at int i = 1.
freeObjects_FromOne(s) ==
    IF s.allocVector = NULL THEN s
    ELSE LET s1 == freeLoop(s, 1, s.used)
         IN  IF s1.ub THEN s1 ELSE freeStruct(freeVector(s1))

\* freeObjects without lines 53-54: the struct stays allocated and pointed to.
freeObjects_NoStructFree(s) ==
    IF s.allocVector = NULL THEN s
    ELSE LET s1 == freeLoop(s, 0, s.used)
         IN  IF s1.ub THEN s1 ELSE freeVector(s1)

\* freeObjects without lines 50-54: the handles are freed, the tracker stays.
freeObjects_NoTeardown(s) ==
    IF s.allocVector = NULL THEN s ELSE freeLoop(s, 0, s.used)

\* freeObjects without lines 42-43: _allocVector->used is read through NULL.
freeObjects_NoNullCheck(s) ==
    IF s.allocVector = NULL THEN [s EXCEPT !.ub = TRUE]
    ELSE LET s1 == freeLoop(s, 0, s.used)
         IN  IF s1.ub THEN s1 ELSE freeStruct(freeVector(s1))

\* freeObjects that empties the tracker for reuse instead of tearing it down.
freeObjects_Reuse(s) ==
    IF s.allocVector = NULL THEN s
    ELSE LET s1 == freeLoop(s, 0, s.used)
         IN  IF s1.ub THEN s1 ELSE [s1 EXCEPT !.used = 0]

\* void freeObjects()
freeObjects(s) ==
    IF s.allocVector = NULL THEN s
    ELSE LET s1 == freeLoop(s, 0, s.used)
         IN  IF s1.ub THEN s1 ELSE freeStruct(freeVector(s1))

\* What a build can do once behaviour is undefined: the process is killed, or
\* it goes on with memory in no defined state.
UBOutcomes == {"crashed", "corrupted"}

\* The addresses the caller's allocator can return for the next jobject: a
\* unit of work takes its handles bottom-up or top-down, and never an address
\* that is still allocated.
CallerMalloc ==
    (IF tracked = <<>> THEN {1, MaxHandles}
     ELSE IF tracked[1] = 1 THEN {Len(tracked) + 1}
     ELSE {MaxHandles - Len(tracked)}) \cap (Handles \ live)

Init ==
    /\ allocVector = NULL
    /\ vector = NULL
    /\ used = 0
    /\ size = 0
    /\ buffer = <<>>
    /\ live = {}
    /\ structs = 0
    /\ bufs = 0
    /\ status = "running"
    /\ oom = FALSE
    /\ ret = "none"
    /\ freeLog = <<>>
    /\ tracked = <<>>
    /\ released = <<>>
    /\ lastCall = "none"
    /\ prevCall = "none"
    /\ sizeAtRelease = -1
    /\ ThreadsIdle

\* The memory after a call that produced r.  A call that is not killed returns
\* to its caller, and both functions return void.
Commit(r) ==
    /\ allocVector' = r.allocVector
    /\ vector' = r.vector
    /\ used' = r.used
    /\ size' = r.size
    /\ buffer' = r.buffer
    /\ live' = r.live
    /\ structs' = r.structs
    /\ bufs' = r.bufs
    /\ oom' = r.oom
    /\ freeLog' = r.log

\* The caller allocates obj and calls trackObject(obj).
TrackObject ==
    /\ status = "running"
    /\ \E obj \in CallerMalloc, mS \in BOOLEAN, mB \in BOOLEAN, rA \in BOOLEAN :
         LET r == trackObject([State EXCEPT !.live = @ \cup {obj}], obj, mS, mB, rA)
         IN  /\ Commit(r)
             /\ IF r.ub THEN status' \in UBOutcomes ELSE status' = "running"
             /\ ret' = IF status' = "crashed" THEN "none" ELSE "void"
             /\ tracked' = IF r.ub THEN tracked ELSE Append(tracked, obj)
    /\ released' = <<>>
    /\ lastCall' = "track"
    /\ prevCall' = lastCall
    /\ UNCHANGED sizeAtRelease
    /\ UNCHANGED svars

\* The caller calls freeObjects().
FreeObjects ==
    /\ status = "running"
    /\ LET r == freeObjects(State)
       IN  /\ Commit(r)
           /\ IF r.ub THEN status' \in UBOutcomes ELSE status' = "running"
           /\ ret' = IF status' = "crashed" THEN "none" ELSE "void"
    /\ released' = tracked
    /\ tracked' = <<>>
    /\ lastCall' = "free"
    /\ prevCall' = lastCall
    /\ sizeAtRelease' = size
    /\ UNCHANGED svars

Next == TrackObject \/ FreeObjects

Spec == Init /\ [][Next]_vars

----------------------------------------------------------------------------
(***************************************************************************)
(* The same two functions executed line by line by threads.  Every         *)
(* expression _allocVector->f reads the global pointer anew, so a step     *)
(* acts on whatever struct the pointer refers to when the step is taken.   *)
(* vector, used and size are the fields of that struct and buffer the      *)
(* block its vector refers to; a struct or block no pointer refers to any  *)
(* more only counts in structs and bufs.                                   *)
(***************************************************************************)

\* What thread t's next line reads and writes: the shared memory and t's own
\* locals, as one value; flt is the undefined operation the line performs.
Ctx(t) ==
    [allocVector |-> allocVector, vector |-> vector, used |-> used,
     size |-> size, buffer |-> buffer, live |-> live, structs |-> structs,
     bufs |-> bufs, structFreed |-> structFreed, bufFreed |-> bufFreed,
     log |-> freeLog, oom |-> oom, ub |-> FALSE,
     fn |-> loc[t].fn, obj |-> loc[t].obj, i |-> loc[t].i, iters |-> loc[t].iters,
     inits |-> loc[t].inits, grows |-> loc[t].grows, used0 |-> loc[t].used0,
     pc |-> pc[t], flt |-> "none"]

Fault(c, kind) == [c EXCEPT !.flt = kind]

\* An access _allocVector->f: what is wrong with it, if anything.
StructFault(c) ==
    IF c.allocVector = NULL THEN "null-deref"
    ELSE IF c.structFreed THEN "use-after-free"
    ELSE "none"

\* An access _allocVector->vector[i]: what is wrong with it, if anything.
SlotFault(c, i) ==
    IF StructFault(c) # "none" THEN StructFault(c)
    ELSE IF c.vector = Uninit THEN "uninit-read"
    ELSE IF c.vector = NULL THEN "null-deref"
    ELSE IF c.bufFreed THEN "use-after-free"
    ELSE IF i < 0 \/ i + 1 > Len(c.buffer) THEN "out-of-bounds"
    ELSE "none"

\* Line 29: if (_allocVector == NULL || _allocVector->vector == NULL).
line29(c) ==
    IF c.allocVector = NULL THEN [c EXCEPT !.pc = "i22"]
    ELSE IF StructFault(c) # "none" THEN Fault(c, StructFault(c))
    ELSE IF c.vector = Uninit THEN Fault(c, "uninit-read")
    ELSE IF c.vector = NULL THEN [c EXCEPT !.pc = "i22"]
    ELSE [c EXCEPT !.pc = "t33"]

\* Line 22: _allocVector = malloc(sizeof(AllocVector)); the fields of the new
\* struct are not initialised.
line22(c, ok) ==
    IF ok
    THEN [c EXCEPT !.allocVector = StructPtr, !.structs = @ + 1,
                   !.structFreed = FALSE, !.vector = Uninit, !.used = Uninit,
                   !.size = Uninit, !.buffer = <<>>, !.bufFreed = FALSE,
                   !.inits = @ + 1, !.pc = "i23"]
    ELSE [c EXCEPT !.allocVector = NULL, !.structFreed = FALSE, !.oom = TRUE,
                   !.inits = @ + 1, !.pc = "i23"]

\* Line 23: _allocVector->vector = malloc(initialSize * sizeof(jobject*)).
line23(c, ok) ==
    IF StructFault(c) # "none" THEN Fault(c, StructFault(c))
    ELSE IF ok
    THEN [c EXCEPT !.vector = BufPtr, !.bufs = @ + 1,
                   !.buffer = Slots(initialSize), !.bufFreed = FALSE, !.pc = "i24"]
    ELSE [c EXCEPT !.vector = NULL, !.buffer = <<>>, !.bufFreed = FALSE,
                   !.oom = TRUE, !.pc = "i24"]

\* Line 24: _allocVector->used = 0.
line24(c) ==
    IF StructFault(c) # "none" THEN Fault(c, StructFault(c))
    ELSE [c EXCEPT !.used = 0, !.pc = "i25"]

\* Line 25: _allocVector->size = initialSize.
line25(c) ==
    IF StructFault(c) # "none" THEN Fault(c, StructFault(c))
    ELSE [c EXCEPT !.size = initialSize, !.pc = "t33"]

\* Line 33: if (_allocVector->used == _allocVector->size).
line33(c) ==
    IF StructFault(c) # "none" THEN Fault(c, StructFault(c))
    ELSE IF c.used = Uninit \/ c.size = Uninit THEN Fault(c, "uninit-read")
    ELSE [c EXCEPT !.pc = IF c.used = c.size THEN "t34" ELSE "t38r"]

\* Line 34: _allocVector->size *= 2.
line34(c) ==
    IF StructFault(c) # "none" THEN Fault(c, StructFault(c))
    ELSE IF c.size = Uninit THEN Fault(c, "uninit-read")
    ELSE [c EXCEPT !.size = @ * 2, !.grows = @ + 1, !.pc = "t35"]

\* Lines 35-36: _allocVector->vector = realloc(_allocVector->vector, size
\* slots), taken as one step.  realloc of NULL is malloc; a failed realloc
\* returns NULL and leaves the old block allocated.
line35(c, ok) ==
    IF StructFault(c) # "none" THEN Fault(c, StructFault(c))
    ELSE IF c.vector = Uninit \/ c.size = Uninit THEN Fault(c, "uninit-read")
    ELSE IF c.vector # NULL /\ c.bufFreed THEN Fault(c, "double-free")
    ELSE IF ~ok THEN [c EXCEPT !.vector = NULL, !.oom = TRUE, !.pc = "t38r"]
    ELSE IF c.vector = NULL
    THEN [c EXCEPT !.vector = BufPtr, !.bufs = @ + 1, !.buffer = Slots(c.size),
                   !.bufFreed = FALSE, !.pc = "t38r"]
    ELSE [c EXCEPT !.buffer = [i \in 1..c.size |->
                                  IF i <= Len(c.buffer) THEN c.buffer[i] ELSE Uninit],
                   !.pc = "t38r"]

\* Line 38, the read of _allocVector->used in used++.
line38r(c) ==
    IF StructFault(c) # "none" THEN Fault(c, StructFault(c))
    ELSE IF c.used = Uninit THEN Fault(c, "uninit-read")
    ELSE [c EXCEPT !.i = c.used, !.pc = "t38w"]

\* Line 38, the write of obj to the slot at the index read.
line38w(c) ==
    IF SlotFault(c, c.i) # "none" THEN Fault(c, SlotFault(c, c.i))
    ELSE [c EXCEPT !.buffer[c.i + 1] = c.obj, !.pc = "t38i"]

\* Line 38 with the incremented value dropped: used is written back as read.
line38i_NoIncrement(c) ==
    IF StructFault(c) # "none" THEN Fault(c, StructFault(c))
    ELSE [c EXCEPT !.used = c.i, !.pc = "ret"]

\* Line 38, the write of the incremented value to _allocVector->used.
line38i(c) ==
    IF StructFault(c) # "none" THEN Fault(c, StructFault(c))
    ELSE [c EXCEPT !.used = c.i + 1, !.pc = "ret"]

\* Lines 42-43 and the int i = 0 of line 45.
line42(c) ==
    IF c.allocVector = NULL THEN [c EXCEPT !.pc = "ret"]
    ELSE [c EXCEPT !.i = 0, !.pc = "f45"]

\* Line 45 with the test i <= used.
line45_OffByOne(c) ==
    IF StructFault(c) # "none" THEN Fault(c, StructFault(c))
    ELSE IF c.used = Uninit THEN Fault(c, "uninit-read")
    ELSE [c EXCEPT !.pc = IF c.i <= c.used THEN "f46" ELSE "f50"]

\* Line 45, the test i < _allocVector->used.
line45(c) ==
    IF StructFault(c) # "none" THEN Fault(c, StructFault(c))
    ELSE IF c.used = Uninit THEN Fault(c, "uninit-read")
    ELSE [c EXCEPT !.pc = IF c.i < c.used THEN "f46" ELSE "f50"]

\* Line 46 with the index 0 instead of i.
line46_SlotZero(c) ==
    IF SlotFault(c, 0) # "none" THEN Fault(c, SlotFault(c, 0))
    ELSE IF c.buffer[1] = Uninit THEN Fault(c, "uninit-read")
    ELSE LET r == free(c, c.buffer[1])
         IN  IF r.ub THEN Fault(r, "double-free") ELSE [r EXCEPT !.pc = "f47"]

\* Line 46: free(_allocVector->vector[i]).
line46(c) ==
    IF SlotFault(c, c.i) # "none" THEN Fault(c, SlotFault(c, c.i))
    ELSE IF c.buffer[c.i + 1] = Uninit THEN Fault(c, "uninit-read")
    ELSE LET r == free(c, c.buffer[c.i + 1])
         IN  IF r.ub THEN Fault(r, "double-free") ELSE [r EXCEPT !.pc = "f47"]

\* Line 47 without the store: the slot keeps the freed pointer.
line47_NoClear(c) ==
    IF SlotFault(c, c.i) # "none" THEN Fault(c, SlotFault(c, c.i))
    ELSE [c EXCEPT !.i = @ + 1, !.iters = @ + 1, !.pc = "f45"]

\* Line 47: _allocVector->vector[i] = NULL, and the i++ of line 45.
line47(c) ==
    IF SlotFault(c, c.i) # "none" THEN Fault(c, SlotFault(c, c.i))
    ELSE [c EXCEPT !.buffer[c.i + 1] = NULL, !.i = @ + 1, !.iters = @ + 1,
                   !.pc = "f45"]

\* Line 50 written twice: free(_allocVector->vector) is called two times.
line50_Twice(c) ==
    IF StructFault(c) # "none" THEN Fault(c, StructFault(c))
    ELSE IF c.vector = Uninit THEN Fault(c, "uninit-read")
    ELSE IF c.vector = NULL THEN [c EXCEPT !.pc = "f51"]
    ELSE Fault([c EXCEPT !.bufs = IF c.bufFreed THEN @ ELSE @ - 1, !.bufFreed = TRUE,
                         !.log = Append(Append(@, <<"vector", BufPtr>>),
                                        <<"vector", BufPtr>>)], "double-free")

\* Line 50: free(_allocVector->vector).
line50(c) ==
    IF StructFault(c) # "none" THEN Fault(c, StructFault(c))
    ELSE IF c.vector = Uninit THEN Fault(c, "uninit-read")
    ELSE IF c.vector = NULL THEN [c EXCEPT !.pc = "f51"]
    ELSE IF c.bufFreed
    THEN Fault([c EXCEPT !.log = Append(@, <<"vector", BufPtr>>)], "double-free")
    ELSE [c EXCEPT !.bufs = @ - 1, !.bufFreed = TRUE,
                   !.log = Append(@, <<"vector", BufPtr>>), !.pc = "f51"]

\* Line 51: _allocVector->vector = NULL.
line51(c) ==
    IF StructFault(c) # "none" THEN Fault(c, StructFault(c))
    ELSE [c EXCEPT !.vector = NULL, !.buffer = <<>>, !.bufFreed = FALSE,
                   !.pc = "f53"]

\* Line 53: free(_allocVector).
line53(c) ==
    IF c.allocVector = NULL THEN [c EXCEPT !.pc = "f54"]
    ELSE IF c.structFreed
    THEN Fault([c EXCEPT !.log = Append(@, <<"struct", StructPtr>>)], "double-free")
    ELSE [c EXCEPT !.structs = @ - 1, !.structFreed = TRUE,
                   !.log = Append(@, <<"struct", StructPtr>>), !.pc = "f54"]

\* Line 54 missing: the global pointer keeps the freed address.
line54_KeepGlobal(c) ==
    [c EXCEPT !.pc = "ret"]

\* Line 54: _allocVector = NULL.  Nothing refers to the struct's fields or to
\* its block any more.
line54(c) ==
    [c EXCEPT !.allocVector = NULL, !.structFreed = FALSE, !.vector = NULL,
              !.used = 0, !.size = 0, !.buffer = <<>>, !.bufFreed = FALSE,
              !.pc = "ret"]

TrackLabels == {"t29", "i22", "i23", "i24", "i25", "t33", "t34", "t35",
                "t38r", "t38w", "t38i"}
FreeLabels == {"f42", "f45", "f46", "f47", "f50", "f51", "f53", "f54"}

\* The calls still planned, over all threads.
RECURSIVE Planned(_)
Planned(T) ==
    IF T = {} THEN 0
    ELSE LET t == CHOOSE x \in T : TRUE IN Len(plan[t]) + Planned(T \ {t})

\* The address the caller's allocator returns for the next jobject: one it
\* has not handed out before.
FreshObj == MaxHandles - Planned(Threads)

\* Thread t's line produced c: the memory and t's locals after it.  A line
\* that does something undefined ends the run; the last line of a call returns.
Do(t, c) ==
    /\ allocVector' = c.allocVector
    /\ vector' = c.vector
    /\ used' = c.used
    /\ size' = c.size
    /\ buffer' = c.buffer
    /\ live' = c.live
    /\ structs' = c.structs
    /\ bufs' = c.bufs
    /\ structFreed' = c.structFreed
    /\ bufFreed' = c.bufFreed
    /\ freeLog' = c.log
    /\ oom' = c.oom
    /\ loc' = [loc EXCEPT ![t] = [fn |-> c.fn, obj |-> c.obj, i |-> c.i, iters |-> c.iters,
                                  inits |-> c.inits, grows |-> c.grows,
                                  used0 |-> c.used0]]
    /\ IF c.flt # "none"
       THEN /\ status' \in UBOutcomes
            /\ fault' = [kind |-> c.flt, thread |-> t, at |-> pc[t]]
            /\ UNCHANGED <<pc, tracked, lastCall, prevCall, ret>>
       ELSE /\ UNCHANGED <<status, fault>>
            /\ IF c.pc = "ret"
               THEN /\ pc' = [pc EXCEPT ![t] = "idle"]
                    /\ tracked' = IF pc[t] \in TrackLabels
                                  THEN Append(tracked, c.obj) ELSE tracked
                    /\ lastCall' = IF pc[t] \in TrackLabels THEN "track" ELSE "free"
                    /\ prevCall' = lastCall
                    /\ ret' = "void"
               ELSE /\ pc' = [pc EXCEPT ![t] = c.pc]
                    /\ UNCHANGED <<tracked, lastCall, prevCall, ret>>
    /\ UNCHANGED <<plan, released, sizeAtRelease, overlap, loop>>

\* The function thread u is executing, and the threads executing one.
CallOf(u) == IF pc[u] \in TrackLabels THEN "track" ELSE "free"
Running == {u \in Threads : pc[u] # "idle"}

\* Thread t calls the next function of its plan: trackObject on a jobject it
\* has just allocated, or freeObjects.
StartCall(t) ==
    /\ status = "running"
    /\ pc[t] = "idle"
    /\ plan[t] # <<>>
    /\ plan' = [plan EXCEPT ![t] = Tail(@)]
    /\ overlap' = overlap \cup {{Head(plan[t]), CallOf(u)} : u \in Running \ {t}}
    /\ freeLog' = <<>>
    /\ IF Head(plan[t]) = "track"
       THEN /\ pc' = [pc EXCEPT ![t] = "t29"]
            /\ loc' = [loc EXCEPT ![t] = [NoLocals EXCEPT !.fn = "track", !.obj = FreshObj,
                                              !.used0 = IF allocVector = NULL THEN Uninit ELSE used]]
            /\ live' = live \cup {FreshObj}
            /\ UNCHANGED <<tracked, released, sizeAtRelease>>
       ELSE /\ pc' = [pc EXCEPT ![t] = "f42"]
            /\ loc' = [loc EXCEPT ![t] = [NoLocals EXCEPT !.fn = "free",
                                              !.used0 = IF allocVector = NULL THEN Uninit ELSE used]]
            /\ released' = tracked
            /\ tracked' = <<>>
            /\ sizeAtRelease' = size
            /\ UNCHANGED live
    /\ UNCHANGED <<allocVector, vector, used, size, buffer, structs, bufs, status,
                   oom, ret, lastCall, prevCall, structFreed, bufFreed, fault, loop>>

\* The lines of trackObject.
Track29(t) == status = "running" /\ pc[t] = "t29" /\ Do(t, line29(Ctx(t)))
Init22(t) == status = "running" /\ pc[t] = "i22" /\ \E ok \in BOOLEAN : Do(t, line22(Ctx(t), ok))
Init23(t) == status = "running" /\ pc[t] = "i23" /\ \E ok \in BOOLEAN : Do(t, line23(Ctx(t), ok))
Init24(t) == status = "running" /\ pc[t] = "i24" /\ Do(t, line24(Ctx(t)))
Init25(t) == status = "running" /\ pc[t] = "i25" /\ Do(t, line25(Ctx(t)))
Track33(t) == status = "running" /\ pc[t] = "t33" /\ Do(t, line33(Ctx(t)))
Track34(t) == status = "running" /\ pc[t] = "t34" /\ Do(t, line34(Ctx(t)))
Track35(t) == status = "running" /\ pc[t] = "t35" /\ \E ok \in BOOLEAN : Do(t, line35(Ctx(t), ok))
Track38r(t) == status = "running" /\ pc[t] = "t38r" /\ Do(t, line38r(Ctx(t)))
Track38w(t) == status = "running" /\ pc[t] = "t38w" /\ Do(t, line38w(Ctx(t)))
Track38i(t) == status = "running" /\ pc[t] = "t38i" /\ Do(t, line38i(Ctx(t)))

\* The lines of freeObjects.
Free42(t) == status = "running" /\ pc[t] = "f42" /\ Do(t, line42(Ctx(t)))
Free45(t) == status = "running" /\ pc[t] = "f45" /\ Do(t, line45(Ctx(t)))
Free46(t) == status = "running" /\ pc[t] = "f46" /\ Do(t, line46(Ctx(t)))
Free47(t) == status = "running" /\ pc[t] = "f47" /\ Do(t, line47(Ctx(t)))
Free50(t) == status = "running" /\ pc[t] = "f50" /\ Do(t, line50(Ctx(t)))
Free51(t) == status = "running" /\ pc[t] = "f51" /\ Do(t, line51(Ctx(t)))
Free53(t) == status = "running" /\ pc[t] = "f53" /\ Do(t, line53(Ctx(t)))
Free54(t) == status = "running" /\ pc[t] = "f54" /\ Do(t, line54(Ctx(t)))

Step(t) ==
    \/ StartCall(t)
    \/ Track29(t) \/ Init22(t) \/ Init23(t) \/ Init24(t) \/ Init25(t)
    \/ Track33(t) \/ Track34(t) \/ Track35(t)
    \/ Track38r(t) \/ Track38w(t) \/ Track38i(t)
    \/ Free42(t) \/ Free45(t) \/ Free46(t) \/ Free47(t)
    \/ Free50(t) \/ Free51(t) \/ Free53(t) \/ Free54(t)

ThreadsNext == \E t \in Threads : Step(t)

\* The smallest c * 2^k that is >= n.
RECURSIVE SmallestCap(_, _)
SmallestCap(c, n) == IF c >= n THEN c ELSE SmallestCap(2 * c, n)

\* The tracker after n trackObject calls on the handles 1..n since it was
\* created (n = 0: not created).
Tracking(n) ==
    /\ allocVector = (IF n = 0 THEN NULL ELSE StructPtr)
    /\ vector = (IF n = 0 THEN NULL ELSE BufPtr)
    /\ used = n
    /\ size = (IF n = 0 THEN 0 ELSE SmallestCap(initialSize, n))
    /\ buffer = (IF n = 0 THEN <<>>
                 ELSE [i \in 1..SmallestCap(initialSize, n) |->
                          IF i <= n THEN i ELSE Uninit])
    /\ live = 1..n
    /\ structs = (IF n = 0 THEN 0 ELSE 1)
    /\ bufs = (IF n = 0 THEN 0 ELSE 1)
    /\ tracked = [i \in 1..n |-> i]
    /\ status = "running"
    /\ oom = FALSE
    /\ ret = (IF n = 0 THEN "none" ELSE "void")
    /\ freeLog = <<>>
    /\ released = <<>>
    /\ lastCall = (IF n = 0 THEN "none" ELSE "track")
    /\ prevCall = (IF n <= 1 THEN "none" ELSE "track")
    /\ sizeAtRelease = -1
    /\ loc = [t \in Threads |-> NoLocals]
    /\ structFreed = FALSE
    /\ bufFreed = FALSE
    /\ fault = NoFault
    /\ overlap = {}
    /\ pc = [t \in Threads |-> "idle"]

\* Longest plan of the single thread.
MaxSeqCalls == 2

Calls == {"track", "free"}

\* The sequences of at most n calls.
RECURSIVE PlansUpTo(_)
PlansUpTo(n) ==
    IF n = 0 THEN {<<>>}
    ELSE PlansUpTo(n - 1) \cup
         {Append(p, c) : p \in {q \in PlansUpTo(n - 1) : Len(q) = n - 1}, c \in Calls}

\* One thread makes up to MaxSeqCalls calls, starting with no tracker or with
\* a full one of 128 handles.
SeqInit ==
    /\ \E n \in {0, initialSize} : Tracking(n)
    /\ \E p \in PlansUpTo(MaxSeqCalls) : plan = [t \in Threads |-> IF t = "t1" THEN p ELSE <<>>]
    /\ loop = NoLoop

\* A thread inside a call is scheduled again: nothing in the two functions
\* waits for anything.
SeqSpec == SeqInit /\ [][ThreadsNext]_vars /\ WF_vars(ThreadsNext)

\* What one thread does: one call, or a trackObject followed by a freeObjects.
Programs == {<<"track">>, <<"free">>, <<"track", "free">>}

\* Two threads run one program each, starting with no tracker, with one of 2
\* handles or with a full one of 128 handles; on the full tracker both make
\* the call that grows it.
ConcInit ==
    \E n \in {0, 2, initialSize}, p1 \in Programs, p2 \in Programs :
       /\ n = initialSize => (p1 = <<"track">> /\ p2 = <<"track">>)
       /\ Tracking(n)
       /\ plan = [t \in Threads |-> IF t = "t1" THEN p1 ELSE p2]
       /\ loop = NoLoop

ConcSpec == ConcInit /\ [][ThreadsNext]_vars

----------------------------------------------------------------------------
(***************************************************************************)
(* The loop of lines 45-48 on machine integers.  The index is declared     *)
(* int i and the bound _allocVector->used is a size_t; the widths are      *)
(* scaled down, keeping int narrower than size_t.                          *)
(***************************************************************************)

\* Width of int and of size_t, in bits.
IntBits == 4
SizeBits == 6

RECURSIVE Pow2(_)
Pow2(n) == IF n = 0 THEN 1 ELSE 2 * Pow2(n - 1)

INT_MAX == Pow2(IntBits - 1) - 1
INT_MIN == 0 - Pow2(IntBits - 1)
SIZE_MAX == Pow2(SizeBits) - 1

\* The usual arithmetic conversion of the int operand of i < used: the value
\* modulo 2^SizeBits.
ToSize(i) == i % Pow2(SizeBits)

\* What a build can make of the signed overflow of i++ (undefined): the
\* index wraps to INT_MIN, the increment traps, or the index is kept in a
\* register as wide as size_t and goes on counting.
OverflowOutcomes == {"wrap", "trap", "wide"}

\* What the loop leaves alone.
lvars == <<allocVector, vector, used, size, buffer, live, structs, bufs,
           status, oom, ret, freeLog, tracked, released, lastCall, prevCall,
           sizeAtRelease, pc, plan, loc, structFreed, bufFreed, fault, overlap>>

\* Line 45, the test i < _allocVector->used.
LoopTest ==
    /\ loop.pc = "test"
    /\ UNCHANGED lvars
    /\ loop' = [loop EXCEPT !.pc = IF ToSize(loop.i) < loop.used THEN "body" ELSE "done"]

\* Lines 46-47 for the index i: free(vector[i]); vector[i] = NULL.  A
\* negative index is outside the block.
LoopBody ==
    /\ loop.pc = "body"
    /\ UNCHANGED lvars
    /\ loop' = IF loop.i < 0
               THEN [loop EXCEPT !.pc = "out-of-bounds"]
               ELSE [loop EXCEPT !.visited = Append(@, loop.i), !.pc = "incr"]

\* Line 45, i++.
LoopIncr ==
    /\ loop.pc = "incr"
    /\ UNCHANGED lvars
    /\ IF loop.mode = "int" /\ loop.i = INT_MAX
       THEN \E o \in OverflowOutcomes :
               loop' = [loop EXCEPT !.ovf = TRUE,
                                    !.i = IF o = "wrap" THEN INT_MIN ELSE IF o = "wide" THEN @ + 1 ELSE @,
                                    !.mode = IF o = "wide" THEN "wide" ELSE @,
                                    !.pc = IF o = "trap" THEN "trapped" ELSE "test"]
       ELSE loop' = [loop EXCEPT !.i = @ + 1, !.pc = "test"]

LoopNext == LoopTest \/ LoopBody \/ LoopIncr

\* freeObjects reaches line 45 with any value a size_t can hold in used.
LoopInit ==
    /\ Tracking(0)
    /\ plan = [t \in Threads |-> <<>>]
    /\ \E u \in 0..SIZE_MAX : loop = [NoLoop EXCEPT !.pc = "test", !.used = u]

LoopSpec == LoopInit /\ [][LoopNext]_vars

----------------------------------------------------------------------------
\* Helpers of the properties below.

Range(f) == {f[i] : i \in DOMAIN f}

\* The jobject pointers passed to free(), in call order.
FreedObjs(log) ==
    LET objs == SelectSeq(log, LAMBDA e : e[1] = "obj")
    IN  [i \in 1..Len(objs) |-> objs[i][2]]

\* How often h was passed to free().
FreeCount(log, h) == Cardinality({i \in DOMAIN log : log[i] = <<"obj", h>>})

\* C1: N trackObject calls on distinct handles followed by freeObjects (no
\* allocation failing): freeObjects frees exactly those N handles, each exactly
\* once, and until it starts every tracked handle is still allocated
\* (trackObject calls free() on nothing).
C1_ReleaseExactlyTracked ==
    ~oom =>
       /\ status = "running"
       /\ Range(tracked) \subseteq live
       /\ lastCall = "track" => freeLog = <<>>
       /\ lastCall = "free" =>
             /\ Range(FreedObjs(freeLog)) = Range(released)
             /\ Len(FreedObjs(freeLog)) = Len(released)
             /\ \A h \in Range(released) : FreeCount(freeLog, h) = 1 /\ h \notin live

\* A freeObjects call has just freed a unit of 129 handles, one growth included.
C1_Witness ==
    /\ lastCall = "free"
    /\ status = "running"
    /\ Len(released) = initialSize + 1
    /\ Len(FreedObjs(freeLog)) = initialSize + 1

\* C2: over several units of work each freeObjects frees exactly the handles
\* tracked since the previous freeObjects, none of an earlier unit a second
\* time (no free() of a pointer that is not allocated), and the tracker holds
\* exactly the handles tracked since the last freeObjects.
C2_UnitsAreSeparate ==
    ~oom =>
       /\ status = "running"
       /\ live = Range(tracked)
       /\ lastCall = "free" => Range(FreedObjs(freeLog)) = Range(released)
       /\ allocVector = NULL => tracked = <<>>
       /\ allocVector # NULL =>
             /\ used = Len(tracked)
             /\ \A i \in 1..used : buffer[i] = tracked[i]

\* track(..); release_all(); track(D): the tracker contains only D.
C2_Witness ==
    /\ lastCall = "track"
    /\ prevCall = "free"
    /\ sizeAtRelease >= initialSize
    /\ used = 1
    /\ Len(tracked) = 1
    /\ buffer[1] = tracked[1]
    /\ live = {tracked[1]}

\* C3: an allocation that fails inside trackObject is handed to the caller as
\* an OutOfMemory result, and the call does nothing undefined.
C3_OutOfMemorySurfaced ==
    oom => (ret = "OutOfMemory" /\ status = "running")

\* C4: freeObjects on the uninitialized tracker (in particular when no
\* trackObject call was ever made) frees nothing, does nothing undefined and
\* leaves the tracker uninitialized.
C4_ReleaseUninitializedIsNoOp ==
    (lastCall = "free" /\ sizeAtRelease = 0) =>
       /\ status = "running"
       /\ ret = "void"
       /\ freeLog = <<>>
       /\ allocVector = NULL
       /\ live = {} /\ structs = 0 /\ bufs = 0

\* freeObjects was the first call ever made.
C4_Witness ==
    /\ lastCall = "free"
    /\ prevCall = "none"
    /\ sizeAtRelease = 0
    /\ allocVector = NULL

\* C5: in every reachable state, freeObjects twice gives the memory that
\* freeObjects once gives, and the second call frees no handle, no buffer and
\* no struct.
C5_ReleaseIdempotent ==
    /\ status = "running" =>
          LET r1 == [freeObjects(State) EXCEPT !.log = <<>>]
              r2 == freeObjects(r1)
          IN  r2 = r1
    /\ (lastCall = "free" /\ prevCall = "free") =>
          /\ status = "running"
          /\ freeLog = <<>>
          /\ allocVector = NULL
          /\ live = {} /\ structs = 0 /\ bufs = 0

\* Two freeObjects calls in a row, the first of which tore a tracker down.
C5_Witness ==
    /\ lastCall = "free"
    /\ prevCall = "free"
    /\ sizeAtRelease = 0
    /\ freeLog = <<>>
    /\ allocVector = NULL

\* C6: the trackObject call that follows a freeObjects call, its allocations
\* succeeding, returns normally and leaves a new tracker of capacity 128 with
\* used = 1 and the handle in slot 0, whatever capacity the released tracker
\* had reached.
C6_FreshAfterRelease ==
    (lastCall = "track" /\ prevCall = "free" /\ ~oom) =>
       /\ status = "running"
       /\ ret = "void"
       /\ allocVector # NULL /\ vector # NULL
       /\ used = 1
       /\ size = initialSize
       /\ Len(buffer) = initialSize
       /\ buffer[1] = tracked[Len(tracked)]
       /\ structs = 1 /\ bufs = 1

\* The first trackObject after the release of a tracker that had grown twice.
C6_Witness ==
    /\ lastCall = "track"
    /\ prevCall = "free"
    /\ sizeAtRelease = 4 * initialSize
    /\ used = 1
    /\ size = initialSize

\* C7: while the tracker exists and no allocation has failed, 0 <= used <=
\* capacity, capacity being the number of slots of the block (which the size
\* field equals); no store of trackObject falls outside the block.
C7_UsedWithinCapacity ==
    (allocVector # NULL /\ ~oom) =>
       /\ status = "running"
       /\ vector # NULL
       /\ 0 <= used
       /\ used <= Len(buffer)
       /\ size = Len(buffer)

\* A grown tracker that is full.
C7_Witness ==
    /\ allocVector # NULL
    /\ status = "running"
    /\ used = 2 * initialSize
    /\ Len(buffer) = 2 * initialSize

\* C8: after n >= 1 trackObject calls since initialisation the capacity is the
\* smallest 128 * 2^k >= n: 128 after 128 calls, 256 after the 129th, so the
\* capacity doubles exactly in the calls that start with used = capacity.
C8_GrowthDoubles ==
    (allocVector # NULL /\ ~oom) =>
       /\ used = Len(tracked)
       /\ used >= 1
       /\ size = SmallestCap(initialSize, used)
       /\ Len(buffer) = size
       /\ used = initialSize => size = initialSize
       /\ used = initialSize + 1 => size = 2 * initialSize

\* The 129th trackObject has grown the tracker to 256.
C8_Witness ==
    /\ lastCall = "track"
    /\ status = "running"
    /\ used = initialSize + 1
    /\ size = 2 * initialSize

\* C9: slot i holds the i-th handle tracked since the last freeObjects, and
\* freeObjects frees the handles in the order they were tracked.
C9_OrderPreserved ==
    ~oom =>
       /\ allocVector # NULL =>
             /\ Len(tracked) <= Len(buffer)
             /\ \A i \in 1..Len(tracked) : buffer[i] = tracked[i]
       /\ lastCall = "free" => FreedObjs(freeLog) = released

\* freeObjects has freed a unit whose handles were tracked in descending
\* address order, across a growth.
C9_Witness ==
    /\ lastCall = "free"
    /\ status = "running"
    /\ Len(released) > initialSize
    /\ released[1] > released[2]
    /\ FreedObjs(freeLog) = released

\* C10: a trackObject call on an existing tracker whose allocation (if any)
\* succeeds changes slot[used] to the handle, used to used + 1 and, when
\* used = capacity, capacity to twice its value, and nothing else: every slot
\* below used keeps its handle, with room and on growth.
C10_TrackFrame ==
    [][(lastCall' = "track" /\ allocVector # NULL /\ ~oom') =>
          /\ status' = "running"
          /\ allocVector' = allocVector
          /\ used' = used + 1
          /\ buffer'[used + 1] = tracked'[Len(tracked')]
          /\ \A i \in 1..used : buffer'[i] = buffer[i]
          /\ \A i \in (used + 2)..Len(buffer) : buffer'[i] = buffer[i]
          /\ size' = IF used = size THEN 2 * size ELSE size
          /\ Len(buffer') = size'
          /\ live' = live \cup {tracked'[Len(tracked')]}
          /\ structs' = structs /\ bufs' = bufs
          /\ freeLog' = <<>>]_vars

\* The call that grew the tracker has kept the 128 handles tracked before it.
C10_Witness ==
    /\ lastCall = "track"
    /\ status = "running"
    /\ used = initialSize + 1
    /\ Len(buffer) = 2 * initialSize
    /\ \A i \in 1..initialSize : buffer[i] = tracked[i]

\* C11: while no allocation has failed there is at most one AllocVector struct
\* and at most one backing block allocated and not freed (initAllocVector never
\* runs while a struct is live), and _allocVector is non-NULL exactly when a
\* live struct with a non-NULL vector exists.
C11_OneLiveTracker ==
    ~oom =>
       /\ structs \in {0, 1}
       /\ bufs \in {0, 1}
       /\ allocVector # NULL <=> (structs = 1 /\ bufs = 1 /\ vector # NULL)
       /\ allocVector = NULL => (structs = 0 /\ bufs = 0)

\* A tracker created after a release has grown: still one struct, one block.
C11_Witness ==
    /\ lastCall = "track"
    /\ status = "running"
    /\ sizeAtRelease >= initialSize
    /\ used = initialSize + 1
    /\ allocVector # NULL
    /\ structs = 1 /\ bufs = 1

\* The five transitions of the lifecycle, UNINITIALIZED being _allocVector =
\* NULL and ACTIVE(used, size) a non-NULL _allocVector with these fields.
Lifecycle_Create ==
    /\ lastCall' = "track"
    /\ allocVector = NULL
    /\ allocVector' # NULL /\ used' = 1 /\ size' = initialSize

Lifecycle_TrackRoom ==
    /\ lastCall' = "track"
    /\ allocVector # NULL /\ used < size
    /\ allocVector' # NULL /\ used' = used + 1 /\ size' = size

Lifecycle_TrackFull ==
    /\ lastCall' = "track"
    /\ allocVector # NULL /\ used = size
    /\ allocVector' # NULL /\ used' = used + 1 /\ size' = 2 * size

Lifecycle_Release ==
    /\ lastCall' = "free"
    /\ allocVector # NULL
    /\ allocVector' = NULL

Lifecycle_ReleaseNoOp ==
    /\ lastCall' = "free"
    /\ allocVector = NULL
    /\ allocVector' = NULL
    /\ UNCHANGED <<vector, used, size, buffer, live, structs, bufs>>

\* C12: every call whose allocations succeed is one of the five transitions
\* of the lifecycle, and used is the number of trackObject calls since the last
\* freeObjects (or since the start).
C12_LifecycleTransitions ==
    /\ [][~oom' => \/ Lifecycle_Create
                   \/ Lifecycle_TrackRoom
                   \/ Lifecycle_TrackFull
                   \/ Lifecycle_Release
                   \/ Lifecycle_ReleaseNoOp]_vars
    /\ []((~oom /\ allocVector # NULL) => used = Len(tracked))
    /\ []((~oom /\ allocVector = NULL) => Len(tracked) = 0)

\* ACTIVE(256, 256) --track--> ACTIVE(257, 512) has been taken.
C12_Witness ==
    /\ lastCall = "track"
    /\ status = "running"
    /\ used = 2 * initialSize + 1
    /\ size = 4 * initialSize
    /\ Len(tracked) = used

\* C18: when the realloc of the growth path fails, the capacity still equals
\* the number of slots of the block the tracker points to, the tracker still
\* points to the old block, and the call does nothing undefined, so that the
\* handles registered before stay registered for a later freeObjects.
C18_GrowthFailureKeepsState ==
    (oom /\ lastCall = "track" /\ allocVector # NULL /\ used >= initialSize) =>
       /\ status = "running"
       /\ vector # NULL
       /\ size = Len(buffer)
       /\ \A i \in 1..Len(tracked) : buffer[i] = tracked[i]

\* The free() calls of the running freeObjects so far are those of the first
\* n handles it was called on, in slot order, and nothing else.
FreedFirst(n) ==
    freeLog = [k \in 1..n |-> <<"obj", released[k]>>]

\* Slots 0..n-1 hold NULL and slots n..used-1 still hold their handles, none
\* of them freed.
ClearedBelow(n) ==
    /\ \A k \in 1..n : buffer[k] = NULL
    /\ \A k \in (n + 1)..Len(released) : buffer[k] = released[k] /\ released[k] \in live

\* Both blocks of the tracker are allocated and referred to.
BlocksIntact ==
    /\ allocVector # NULL /\ ~structFreed /\ structs = 1
    /\ vector = BufPtr /\ ~bufFreed /\ bufs = 1
    /\ used = Len(released)

\* C13: inside a freeObjects call (one thread, no allocation failed): slot i is
\* set to NULL right after its handle is freed and before slot i+1 is touched;
\* the buffer is freed only when every used slot has been freed and cleared;
\* the struct is freed only after the buffer; the global pointer is reset
\* last; and no line of freeObjects reads or writes a freed block.
C13_TeardownOrder ==
    /\ fault.at \notin FreeLabels
    /\ \A t \in Threads :
          /\ pc[t] \in {"f45", "f46"} =>
                /\ BlocksIntact
                /\ FreedFirst(loc[t].i)
                /\ ClearedBelow(loc[t].i)
          /\ pc[t] = "f46" => loc[t].i < used
          /\ pc[t] = "f47" =>
                /\ BlocksIntact
                /\ FreedFirst(loc[t].i + 1)
                /\ \A k \in 1..loc[t].i : buffer[k] = NULL
                /\ buffer[loc[t].i + 1] = released[loc[t].i + 1]
                /\ released[loc[t].i + 1] \notin live
                /\ \A k \in (loc[t].i + 2)..Len(released) :
                      buffer[k] = released[k] /\ released[k] \in live
          /\ pc[t] = "f50" =>
                /\ BlocksIntact
                /\ loc[t].i = used
                /\ FreedFirst(used)
                /\ ClearedBelow(used)
          /\ pc[t] = "f51" =>
                /\ freeLog = Append([k \in 1..Len(released) |-> <<"obj", released[k]>>],
                                    <<"vector", BufPtr>>)
                /\ bufFreed /\ bufs = 0
                /\ allocVector # NULL /\ ~structFreed /\ structs = 1
          /\ pc[t] = "f53" =>
                /\ Len(freeLog) = Len(released) + 1
                /\ vector = NULL /\ bufs = 0
                /\ allocVector # NULL /\ ~structFreed /\ structs = 1
          /\ pc[t] = "f54" =>
                /\ Len(freeLog) = Len(released) + 2
                /\ freeLog[Len(freeLog)] = <<"struct", StructPtr>>
                /\ freeLog[Len(freeLog) - 1] = <<"vector", BufPtr>>
                /\ vector = NULL /\ bufs = 0
                /\ allocVector # NULL /\ structFreed /\ structs = 0

\* freeObjects, called on a tracker of 129 handles, has freed the struct and
\* is about to reset the global pointer.
C13_Witness ==
    /\ pc["t1"] = "f54"
    /\ Len(released) = initialSize + 1
    /\ Len(freeLog) = initialSize + 3
    /\ allocVector # NULL
    /\ structFreed

\* C17: every call returns (one thread, no allocation failed).  A freeObjects
\* call started on a tracker with `used` handles makes exactly `used` loop
\* iterations with one free each, then frees the buffer and the struct, and
\* returns with no tracker; started with no tracker it returns at once.  A
\* trackObject call initialises at most once and grows at most once.  No
\* line waits: a thread inside a call can always take its next step.
C17_CallsTerminate ==
    /\ \A t \in Threads : [](pc[t] # "idle" => <>(pc[t] = "idle" \/ oom))
    /\ [](fault # NoFault => oom)
    /\ \A t \in Threads :
          [](/\ (pc[t] # "idle" /\ status = "running") => ENABLED Step(t)
             /\ loc[t].inits <= 1
             /\ loc[t].grows <= 1
             /\ (pc[t] = "idle" /\ loc[t].fn = "free" /\ loc[t].used0 >= 0) =>
                   /\ loc[t].iters = loc[t].used0
                   /\ Len(FreedObjs(freeLog)) = loc[t].used0
                   /\ freeLog = Append(Append([k \in 1..loc[t].used0 |-> <<"obj", released[k]>>],
                                              <<"vector", BufPtr>>), <<"struct", StructPtr>>)
                   /\ allocVector = NULL /\ structs = 0 /\ bufs = 0
             /\ (pc[t] = "idle" /\ loc[t].fn = "free" /\ loc[t].used0 = Uninit) =>
                   /\ loc[t].iters = 0
                   /\ freeLog = <<>>
                   /\ allocVector = NULL)

\* A freeObjects call on a tracker of 129 handles has returned after 129
\* iterations.
C17_Witness ==
    /\ pc["t1"] = "idle"
    /\ loc["t1"].fn = "free"
    /\ loc["t1"].used0 = initialSize + 1
    /\ loc["t1"].iters = initialSize + 1
    /\ allocVector = NULL

\* No thread is inside a call.
Quiescent == \A t \in Threads : pc[t] = "idle"

\* The handles of completed trackObject calls that the tracker does not hold:
\* after the calls, those beyond used or not in their slot; after a
\* freeObjects, those still allocated.
Lost ==
    {h \in Range(tracked) : \A k \in 1..used : k > Len(buffer) \/ buffer[k] # h}
    \cup (IF lastCall = "free" THEN Range(released) \cap live ELSE {})

\* C14: two trackObject calls that overlap can lose a handle, so that a later
\* freeObjects does not free it (the witness).  The loss is due to the
\* overlap: when no two calls overlapped and no allocation failed, after the
\* calls used is the number of completed trackObject calls, every handle is
\* in its slot, and a freeObjects leaves none of them allocated.
C14_LossOnlyWhenOverlapping ==
    (Quiescent /\ overlap = {} /\ ~oom) =>
       /\ status = "running"
       /\ Lost = {}
       /\ allocVector # NULL => used = Len(tracked)
       /\ allocVector = NULL => tracked = <<>>

\* Two trackObject calls overlapped, and nothing else did; both returned, then
\* freeObjects ran alone to its end, and a handle of those calls is still
\* allocated.
C14_Witness ==
    /\ Quiescent
    /\ status = "running"
    /\ ~oom
    /\ overlap = {{"track"}}
    /\ lastCall = "free"
    /\ allocVector = NULL
    /\ Len(released) >= 2
    /\ Range(released) \cap live # {}

\* C15: a trackObject call overlapping a freeObjects call can read or write
\* the struct or the buffer after freeObjects freed it (the witness).  Such
\* an access needs the overlap: a use after free in a line of trackObject
\* happens only when a trackObject call and a freeObjects call overlapped,
\* and without overlap and failed allocation no line of trackObject does
\* anything undefined.
C15_UseAfterFreeOnlyWhenOverlapping ==
    /\ (fault.kind = "use-after-free" /\ fault.at \in TrackLabels) =>
          {"track", "free"} \in overlap
    /\ (fault.at \in TrackLabels /\ ~oom) => overlap # {}

\* A line of trackObject touched the struct or the buffer after the
\* freeObjects call of the other thread, still running, had freed it.
C15_Witness ==
    /\ fault.kind = "use-after-free"
    /\ fault.at \in TrackLabels
    /\ overlap = {{"track", "free"}}
    /\ \E u \in Threads \ {fault.thread} : pc[u] \in {"f51", "f53", "f54"}
    /\ structFreed \/ bufFreed

\* C16: two overlapping freeObjects calls can both pass the NULL check and
\* pass the same pointer to free() twice (the witness).  The double free
\* needs the overlap: a pointer is freed a second time only when two
\* freeObjects calls overlapped.
C16_DoubleFreeOnlyWhenOverlapping ==
    fault.kind = "double-free" => {"free"} \in overlap

\* Both freeObjects calls are past the NULL check, no other calls overlapped,
\* and one of them has passed to free() a handle the other had freed.
C16_Witness ==
    /\ fault.kind = "double-free"
    /\ fault.at = "f46"
    /\ overlap = {{"free"}}
    /\ \A t \in Threads : pc[t] \in FreeLabels \ {"f42"}
    /\ \E h \in Handles : h \notin live /\ FreeCount(freeLog, h) = 2

\* C19: on machine integers (index a signed int, used a wider unsigned
\* size_t), for every value of used the loop of freeObjects visits each of
\* the indices 0..used-1 exactly once, in order, and the index never
\* overflows.
C19_LoopVisitsAll ==
    /\ ~loop.ovf
    /\ loop.pc \notin {"out-of-bounds", "trapped"}
    /\ \A k \in 1..Len(loop.visited) : loop.visited[k] = k - 1
    /\ loop.pc = "done" => Len(loop.visited) = loop.used

====
